---- MODULE Spec2Model ----
(***************************************************************************)
(* A model of the SEO Toolbox server (registerRoutes): the request         *)
(* handlers of POST /api/title-case, POST /api/keyword-density,            *)
(* POST /api/meta-description and POST /api/blog-outline, with the string  *)
(* functions they call and the call to the Hugging Face inference API.     *)
(* A string is a sequence of characters, a character a one-character TLA+  *)
(* string.                                                                 *)
(***************************************************************************)
EXTENDS Integers, Sequences, FiniteSets, TLC

VARIABLES
    req,        \* the request being handled: [path, body]
    res,        \* the response: [sent |-> FALSE] until res.json() is called
    words,      \* the handler's local `words`
    wordCount,  \* the keyword handler's local Map `wordCount`, in insertion order
    apiKey,     \* HUGGING_FACE_API_KEY, the empty string when none is configured
    hfCall,     \* the fetch of callHuggingFace: not made, pending or settled
    suspended,  \* the locals of a second handler, suspended while this one runs
    page        \* the state of the KeywordDensityTool page in the browser

vars == <<req, res, words, wordCount, apiKey, hfCall, suspended, page>>

----------------------------------------------------------------------------
(* Characters and the String methods the handlers call.                    *)

Lowers == <<"a","b","c","d","e","f","g","h","i","j","k","l","m",
            "n","o","p","q","r","s","t","u","v","w","x","y","z">>
Uppers == <<"A","B","C","D","E","F","G","H","I","J","K","L","M",
            "N","O","P","Q","R","S","T","U","V","W","X","Y","Z">>
Digits == {"0","1","2","3","4","5","6","7","8","9"}

IsLower(c) == \E i \in DOMAIN Lowers : Lowers[i] = c
IsUpper(c) == \E i \in DOMAIN Uppers : Uppers[i] = c

\* the regular expression class \s
IsSpace(c) == c \in {" ", "\t", "\n"}

\* the regular expression class \w
IsWordChar(c) == IsLower(c) \/ IsUpper(c) \/ c \in Digits \/ c = "_"

LowerChar(c) == IF IsUpper(c) THEN Lowers[CHOOSE i \in DOMAIN Uppers : Uppers[i] = c] ELSE c
UpperChar(c) == IF IsLower(c) THEN Uppers[CHOOSE i \in DOMAIN Lowers : Lowers[i] = c] ELSE c

\* String.prototype.toLowerCase
\* toLowerCase that keeps the text as it is
toLowerCaseKept(s) == s

toLowerCase(s) == [i \in 1..Len(s) |-> LowerChar(s[i])]

\* the first position >= i of s that holds white space, Len(s)+1 when none
NextSpace(s, i) ==
    CHOOSE e \in i..(Len(s) + 1) :
        /\ e = Len(s) + 1 \/ IsSpace(s[e])
        /\ \A k \in i..(e - 1) : ~IsSpace(s[k])

\* a piece of s.split(/\s+/) starts at 1 and after every maximal run of
\* white space, the run that ends s included
IsPieceStart(s, i) ==
    \/ i = 1
    \/ /\ IsSpace(s[i - 1])
       /\ i = Len(s) + 1 \/ ~IsSpace(s[i])

\* s.split(/\s/): a piece between every two white-space characters
splitEverySpace(s) ==
    LET cuts == SelectSeq([i \in 1..Len(s) |-> i], LAMBDA i : IsSpace(s[i]))
        n == Len(cuts)
    IN  [k \in 1..(n + 1) |->
            SubSeq(s, IF k = 1 THEN 1 ELSE cuts[k - 1] + 1,
                      IF k = n + 1 THEN Len(s) ELSE cuts[k] - 1)]

\* s.split(/\s+/): the pieces between the maximal runs of white space; a run
\* at either end of s leaves an empty piece there
split(s) ==
    LET starts == SelectSeq([i \in 1..(Len(s) + 1) |-> i],
                            LAMBDA i : IsPieceStart(s, i))
    IN  [k \in 1..Len(starts) |->
            SubSeq(s, starts[k], NextSpace(s, starts[k]) - 1)]

\* join that drops the separator
RECURSIVE joinNoSeparator(_, _)
joinNoSeparator(ws, sep) ==
    IF Len(ws) = 0 THEN <<>> ELSE ws[1] \o joinNoSeparator(Tail(ws), sep)

\* Array.prototype.join
RECURSIVE join(_, _)
join(ws, sep) ==
    IF Len(ws) = 0 THEN <<>>
    ELSE IF Len(ws) = 1 THEN ws[1]
    ELSE ws[1] \o sep \o join(Tail(ws), sep)

\* nth counts the calls of res.json for the request
NoResponse == [sent |-> FALSE, nth |-> 0]

\* process.env.HUGGING_FACE_API_KEY || process.env.HF_API_KEY || ""
NoApiKey == ""

\* no second request is being handled
NoFrame == [handling |-> FALSE]

\* no tool page is open
NoPage == [open |-> FALSE]

\* callHuggingFace has not been called
NoCall == [state |-> "none", fetches |-> 0]

ZodError == <<"Z","o","d","E","r","r","o","r">>

\* a catch block whose answer does not end the handler
Status500NotFinal(message) ==
    [sent |-> FALSE, status |-> 500, json |-> [message |-> message], nth |-> res.nth + 1]

\* res.status(500).json({ message })
Status500(message) ==
    [sent |-> TRUE, status |-> 500, json |-> [message |-> message], nth |-> res.nth + 1]

\* res.json(response)
Json(response) ==
    [sent |-> TRUE, status |-> 200, json |-> response, nth |-> res.nth + 1]

----------------------------------------------------------------------------
(* POST /api/title-case                                                    *)

MinTextLen == 1

stopWords == {
    <<"a">>, <<"a","n">>, <<"a","n","d">>, <<"a","s">>, <<"a","t">>,
    <<"b","u","t">>, <<"b","y">>, <<"f","o","r">>, <<"i","f">>, <<"i","n">>,
    <<"i","s">>, <<"i","t">>, <<"n","o","r">>, <<"o","f">>, <<"o","n">>,
    <<"o","r">>, <<"s","o">>, <<"t","h","e">>, <<"t","o">>, <<"u","p">>,
    <<"y","e","t">> }

\* word.charAt(0).toUpperCase() + word.slice(1)
capitalize(word) ==
    IF Len(word) = 0 THEN <<>> ELSE <<UpperChar(word[1])>> \o Tail(word)

\* convertWord with the last word not forced (only index === 0)
convertWordFirstOnly(word, index, n) ==
    IF index = 0 THEN capitalize(word)
    ELSE IF word \in stopWords THEN word
    ELSE capitalize(word)

\* convertWord with the stop-word test dropped
convertWordNoStopWords(word, index, n) == capitalize(word)

\* the callback of words.map, index counted from 0 as in the source
convertWord(word, index, n) ==
    IF index = 0 \/ index = n - 1 THEN capitalize(word)
    ELSE IF word \in stopWords THEN word
    ELSE capitalize(word)

convertedWords(ws) == [i \in 1..Len(ws) |-> convertWord(ws[i], i - 1, Len(ws))]

\* rulesApplied without the rule that did not fire
rulesAppliedFired == <<
    "Capitalized major words (nouns, verbs, adjectives)",
    "Capitalized first and last words" >>

rulesApplied == <<
    "Capitalized major words (nouns, verbs, adjectives)",
    "Kept articles lowercase (a, an, the)",
    "Kept prepositions lowercase (for, to, in, of, etc.)",
    "Capitalized first and last words" >>

TitleCasePath == "/api/title-case"

\* titleCaseRequestSchema.parse throws: the catch block answers 500
TitleCaseRejected ==
    /\ req.path = TitleCasePath
    /\ ~res.sent
    /\ Len(req.body) < MinTextLen
    /\ res' = Status500(ZodError)
    /\ UNCHANGED <<req, words, wordCount, apiKey, hfCall, suspended, page>>

\* the body of the try block, to res.json(response)
TitleCaseConverted ==
    /\ req.path = TitleCasePath
    /\ ~res.sent
    /\ Len(req.body) >= MinTextLen
    /\ words' = split(toLowerCase(req.body))
    /\ res' = Json([original |-> req.body,
                    converted |-> join(convertedWords(words'), <<" ">>),
                    rulesApplied |-> rulesApplied])
    /\ UNCHANGED <<req, wordCount, apiKey, hfCall, suspended, page>>

\* the texts a request carries: every string over TitleChars up to MaxTextLen
MaxTextLen == 7
TitleChars == {"a", "N", " ", "\t"}

TitleTexts == UNION {[1..n -> TitleChars] : n \in 0..MaxTextLen}

InitTitleCase ==
    /\ req \in {[path |-> TitleCasePath, body |-> t] : t \in TitleTexts}
    /\ res = NoResponse
    /\ words = <<>>
    /\ wordCount = <<>>
    /\ apiKey = NoApiKey
    /\ hfCall = NoCall
    /\ suspended = NoFrame
    /\ page = NoPage

NextTitleCase == TitleCaseRejected \/ TitleCaseConverted

SpecTitleCase == InitTitleCase /\ [][NextTitleCase]_vars

----------------------------------------------------------------------------
(* POST /api/keyword-density                                               *)
(* A Number with two decimals (a density) is held as its count of          *)
(* hundredths, and a quotient as numerator and denominator.                *)

MinContentLen == 50
MinWordLen == 2
TopN == 20

KeywordDensityPath == "/api/keyword-density"

\* replaceNonWord that leaves the content as it is
replaceNonWordKept(s) == s

\* content.replace(/[^\w\s]/g, ' ')
replaceNonWord(s) ==
    [i \in 1..Len(s) |-> IF IsWordChar(s[i]) \/ IsSpace(s[i]) THEN s[i] ELSE " "]

\* .filter(word => word.length > 2)
filterShort(ws) == SelectSeq(ws, LAMBDA w : Len(w) > MinWordLen)

\* the chain without its .filter(word => word.length > 2)
tokenizeUnfiltered(content) == split(replaceNonWord(toLowerCase(content)))

\* the chain that computes `words` from content
tokenize(content) == filterShort(split(replaceNonWord(toLowerCase(content))))

HasKey(m, word) == \E i \in DOMAIN m : m[i].word = word

\* wordCount.set(word, wordCount.get(word) || (0 + 1)): the count never grows
mapIncrementStuck(m, word) ==
    IF HasKey(m, word) THEN m ELSE Append(m, [word |-> word, count |-> 1])

\* wordCount.set(word, (wordCount.get(word) || 0) + 1): a Map keeps its keys
\* in insertion order
mapIncrement(m, word) ==
    IF HasKey(m, word)
    THEN LET i == CHOOSE k \in DOMAIN m : m[k].word = word
         IN  [m EXCEPT ![i].count = @ + 1]
    ELSE Append(m, [word |-> word, count |-> 1])

\* words.forEach over words lo..hi in order, from the Map m (the range is
\* halved only to keep the evaluation shallow)
RECURSIVE countWords(_, _, _, _)
countWords(ws, lo, hi, m) ==
    IF lo > hi THEN m
    ELSE IF lo = hi THEN mapIncrement(m, ws[lo])
    ELSE LET mid == (lo + hi) \div 2
             counted == countWords(ws, lo, mid, m)
         IN  IF Len(counted) >= 0   \* true: lo..mid is counted before mid+1..hi
             THEN countWords(ws, mid + 1, hi, counted)
             ELSE counted

\* the hundredths nearest to num / den: two of them at an exact tie
nearestHundredths(num, den) ==
    LET lo == (100 * num) \div den
        r  == (100 * num) % den
    IN  IF 2 * r < den THEN {lo}
        ELSE IF 2 * r > den THEN {lo + 1}
        ELSE {lo, lo + 1}

\* Number((num / den).toFixed(2)), in hundredths, of a quotient the doubles
\* hold exactly: toFixed takes the nearest and at a tie the larger.  The tied
\* densities of the contents below have totalWords = 32, a power of two.
toFixed2(num, den) == (200 * num + den) \div (2 * den)

\* statusOf without the last band
statusOfNoHigh(frequency, totalWords) ==
    IF 100 * frequency < 1 * totalWords THEN "low"
    ELSE IF 100 * frequency < 2 * totalWords THEN "good"
    ELSE "optimal"

\* the band of density = (frequency / totalWords) * 100, before rounding
statusOf(frequency, totalWords) ==
    IF 100 * frequency < 1 * totalWords THEN "low"
    ELSE IF 100 * frequency < 2 * totalWords THEN "good"
    ELSE IF 100 * frequency < 4 * totalWords THEN "optimal"
    ELSE "high"

\* the callback of .map(([word, frequency]) => ...)
keywordStat(entry, totalWords) ==
    [word |-> entry.word,
     frequency |-> entry.count,
     density |-> toFixed2(100 * entry.count, totalWords),
     status |-> statusOf(entry.count, totalWords)]

\* a sort by frequency that puts the later of two equal entries first
sortByFrequencyTiesReversed(ks) ==
    LET rank(i) == 1 + Cardinality({j \in DOMAIN ks : ks[j].frequency > ks[i].frequency})
                     + Cardinality({j \in (i + 1)..Len(ks) : ks[j].frequency = ks[i].frequency})
    IN  [p \in 1..Len(ks) |-> ks[CHOOSE i \in DOMAIN ks : rank(i) = p]]

\* .sort((a, b) => b.frequency - a.frequency): Array.prototype.sort is stable
sortByFrequency(ks) ==
    LET rank(i) == 1 + Cardinality({j \in DOMAIN ks : ks[j].frequency > ks[i].frequency})
                     + Cardinality({j \in 1..(i - 1) : ks[j].frequency = ks[i].frequency})
    IN  [p \in 1..Len(ks) |-> ks[CHOOSE i \in DOMAIN ks : rank(i) = p]]

\* .slice(0, 20)
sliceTop(ks) == SubSeq(ks, 1, IF Len(ks) < TopN THEN Len(ks) ELSE TopN)

\* keywordsOf with .slice(0, 20) taken before .sort
keywordsOfSlicedFirst(m, totalWords) ==
    sortByFrequency(sliceTop([i \in 1..Len(m) |-> keywordStat(m[i], totalWords)]))

\* Array.from(wordCount.entries()).map(...).sort(...).slice(0, 20)
keywordsOf(m, totalWords) ==
    sliceTop(sortByFrequency([i \in 1..Len(m) |-> keywordStat(m[i], totalWords)]))

\* keywords.reduce((sum, k) => sum + k.density, 0)
RECURSIVE sumDensity(_, _)
sumDensity(ks, k) == IF k = 0 THEN 0 ELSE sumDensity(ks, k - 1) + ks[k].density

NaN == [isNaN |-> TRUE]
Num(hundredths) == [isNaN |-> FALSE, hundredths |-> hundredths]

\* avgDensityValues dividing by the 20 of the slice, not by keywords.length
avgDensityOverTopN(ks) ==
    {Num(v) : v \in nearestHundredths(sumDensity(ks, Len(ks)), 100 * TopN)}

\* Number((sum / keywords.length).toFixed(2)): 0 / 0 is NaN.  The sum of
\* doubles carries rounding error, so at an exact tie of the quotient toFixed
\* may see it on either side: both hundredths are possible values.
avgDensityValues(ks) ==
    IF Len(ks) = 0 THEN {NaN}
    ELSE {Num(v) : v \in nearestHundredths(sumDensity(ks, Len(ks)), 100 * Len(ks))}

\* keywords[1]?.density || 0: the second entry
topKeywordDensitySecond(ks) == IF Len(ks) < 2 THEN 0 ELSE ks[2].density

\* keywords[keywords.length - 1]?.density || 0: the last entry
topKeywordDensityLast(ks) == IF Len(ks) = 0 THEN 0 ELSE ks[Len(ks)].density

\* keywords[0]?.density || 0
topKeywordDensityOf(ks) == IF Len(ks) = 0 THEN 0 ELSE ks[1].density

\* keywords.length in the place of wordCount.size
uniqueKeywordsCapped(m) == IF Len(m) < TopN THEN Len(m) ELSE TopN

\* wordCount.size
uniqueKeywordsOf(m) == Len(m)

\* keywordDensityRequestSchema.parse throws: the catch block answers 500
KeywordDensityRejected ==
    /\ req.path = KeywordDensityPath
    /\ ~res.sent
    /\ Len(req.body) < MinContentLen
    /\ res' = Status500(ZodError)
    /\ UNCHANGED <<req, words, wordCount, apiKey, hfCall, suspended, page>>

\* the body of the try block, to res.json(response)
KeywordDensityAnalyzed ==
    /\ req.path = KeywordDensityPath
    /\ ~res.sent
    /\ Len(req.body) >= MinContentLen
    /\ \E tokens \in {tokenize(req.body)} :
       \E counts \in {countWords(tokens, 1, Len(tokens), <<>>)} :
       \E keywords \in {keywordsOf(counts, Len(tokens))} :
       \E avgDensity \in avgDensityValues(keywords) :
          /\ words' = tokens
          /\ wordCount' = counts
          /\ res' = Json([totalWords |-> Len(tokens),
                          uniqueKeywords |-> uniqueKeywordsOf(counts),
                          keywords |-> keywords,
                          avgDensity |-> avgDensity,
                          topKeywordDensity |-> topKeywordDensityOf(keywords)])
    /\ UNCHANGED <<req, apiKey, hfCall, suspended, page>>

(* The contents a request carries: MaxSweep or fewer distinct three-letter *)
(* words, then two runs of a short piece, then a run of filler.            *)

MaxSweep == 21
MaxReps == 2

Repeat(piece, k) ==
    [i \in 1..(k * Len(piece)) |-> piece[((i - 1) % Len(piece)) + 1]]

SweepLetters == <<"a", "b", "c", "d", "e", "f">>
SweepWord(i) ==
    <<"w", SweepLetters[((i - 1) \div 6) + 1], SweepLetters[((i - 1) % 6) + 1], " ">>

RECURSIVE Sweep(_)
Sweep(m) == IF m = 0 THEN <<>> ELSE Sweep(m - 1) \o SweepWord(m)

SweepSizes == {0} \cup {m \in 1..MaxSweep : m >= TopN - 1}

Pieces == {
    <<"s","e","o"," ">>,
    <<"S","E","O",","," ">>,
    <<"k","e","y","-","w","o","r","d","\n">>,
    <<"i","t","'","s"," ">>,
    <<"a","_","1","\t">> }

Fillers == {
    <<>>,
    Repeat(<<"a"," ","b"," ">>, 13),
    Repeat(<<"n","e","t"," ">>, 13),
    Repeat(<<"n","e","t"," ">>, 49),
    Repeat(<<"n","e","t"," ">>, 60),
    Repeat(<<"n","e","t"," ">>, 199) }

Contents ==
    {Sweep(m) \o Repeat(p1, r1) \o Repeat(p2, r2) \o f :
        m \in SweepSizes, p1 \in Pieces, r1 \in 0..MaxReps,
        p2 \in Pieces, r2 \in 0..MaxReps, f \in Fillers}

InitKeywordDensity ==
    /\ req \in {[path |-> KeywordDensityPath, body |-> c] : c \in Contents}
    /\ res = NoResponse
    /\ words = <<>>
    /\ wordCount = <<>>
    /\ apiKey = NoApiKey
    /\ hfCall = NoCall
    /\ suspended = NoFrame
    /\ page = NoPage

NextKeywordDensity == KeywordDensityRejected \/ KeywordDensityAnalyzed

SpecKeywordDensity == InitKeywordDensity /\ [][NextKeywordDensity]_vars

----------------------------------------------------------------------------
(* callHuggingFace, POST /api/meta-description and POST /api/blog-outline  *)

MinTopicLen == 1
MinTitleLen == 1
SectionLevel == 2
MaxMetaLen == 160

\* String.prototype.trim
trim(s) ==
    LET kept == {i \in DOMAIN s : ~IsSpace(s[i])}
    IN  IF kept = {} THEN <<>>
        ELSE SubSeq(s, CHOOSE i \in kept : \A j \in kept : i <= j,
                       CHOOSE i \in kept : \A j \in kept : i >= j)

\* s.split(c) for a one-character separator c
splitOn(s, c) ==
    LET cuts == SelectSeq([i \in 1..Len(s) |-> i], LAMBDA i : s[i] = c)
        n == Len(cuts)
    IN  [k \in 1..(n + 1) |->
            SubSeq(s, IF k = 1 THEN 1 ELSE cuts[k - 1] + 1,
                      IF k = n + 1 THEN Len(s) ELSE cuts[k] - 1)]

\* how many characters of s, from its start, are digits
LeadingDigits(s) ==
    CHOOSE k \in 0..Len(s) :
        /\ \A i \in 1..k : s[i] \in Digits
        /\ k = Len(s) \/ s[k + 1] \notin Digits

\* trimmed.match(/^\d+\./)
matchNumbered(s) ==
    LET k == LeadingDigits(s)
    IN  k >= 1 /\ k < Len(s) /\ s[k + 1] = "."

\* s with the white space at its start removed
dropSpaces(s) ==
    LET kept == {i \in DOMAIN s : ~IsSpace(s[i])}
    IN  IF kept = {} THEN <<>>
        ELSE SubSeq(s, CHOOSE i \in kept : \A j \in kept : i <= j, Len(s))

\* trimmed.replace(/^\d+\.\s*/, '')
stripNumber(s) ==
    IF matchNumbered(s)
    THEN dropSpaces(SubSeq(s, LeadingDigits(s) + 2, Len(s)))
    ELSE s

\* trimmed.startsWith('-')
startsWithDash(s) == Len(s) >= 1 /\ s[1] = "-"

\* trimmed.replace(/^-\s*/, '')
stripDash(s) == IF startsWithDash(s) THEN dropSpaces(Tail(s)) ELSE s

\* aiResponse.split('\n').filter(line => line.trim())
outlineLines(aiResponse) ==
    SelectSeq(splitOn(aiResponse, "\n"), LAMBDA line : trim(line) # <<>>)

\* let currentSection = null
NoSection == [open |-> FALSE]

\* newSection that keeps the number in the heading
newSectionNumbered(trimmed) ==
    [heading |-> trimmed, level |-> SectionLevel, subsections |-> <<>>]

\* the section a numbered line opens
newSection(trimmed) ==
    [heading |-> stripNumber(trimmed), level |-> SectionLevel, subsections |-> <<>>]

\* if (currentSection) sections.push(currentSection)
pushCurrent(sections, currentSection) ==
    IF currentSection.open THEN Append(sections, currentSection.section) ELSE sections

\* the loop's state before its first line
LoopStart == [sections |-> <<>>, currentSection |-> NoSection]

\* parseLine that opens a section without pushing the one before it
parseLineNoPush(st, line) ==
    LET trimmed == trim(line)
    IN  IF matchNumbered(trimmed)
        THEN [st EXCEPT !.currentSection = [open |-> TRUE, section |-> newSection(trimmed)]]
        ELSE IF startsWithDash(trimmed) /\ st.currentSection.open
        THEN [st EXCEPT !.currentSection.section.subsections =
                            Append(@, stripDash(trimmed))]
        ELSE st

\* parseLine that takes every other line for a subsection of the open section
parseLineAppendsAny(st, line) ==
    LET trimmed == trim(line)
    IN  IF matchNumbered(trimmed)
        THEN [sections |-> pushCurrent(st.sections, st.currentSection),
              currentSection |-> [open |-> TRUE, section |-> newSection(trimmed)]]
        ELSE IF st.currentSection.open
        THEN [st EXCEPT !.currentSection.section.subsections =
                            Append(@, stripDash(trimmed))]
        ELSE st

\* metaLength without the cap
metaLengthUncapped(content) == Len(content)

\* one pass of the body of for (const line of lines)
parseLine(st, line) ==
    LET trimmed == trim(line)
    IN  IF matchNumbered(trimmed)
        THEN [sections |-> pushCurrent(st.sections, st.currentSection),
              currentSection |-> [open |-> TRUE, section |-> newSection(trimmed)]]
        ELSE IF startsWithDash(trimmed) /\ st.currentSection.open
        THEN [st EXCEPT !.currentSection.section.subsections =
                            Append(@, stripDash(trimmed))]
        ELSE st

\* the loop over the first k lines
RECURSIVE parseLines(_, _)
parseLines(lines, k) ==
    IF k = 0 THEN LoopStart ELSE parseLine(parseLines(lines, k - 1), lines[k])

fallbackSections(topic) == <<
    [heading |-> <<"I","n","t","r","o","d","u","c","t","i","o","n">>, level |-> SectionLevel,
     subsections |-> << <<"W","h","y"," ">> \o topic \o <<" ","m","a","t","t","e","r","s">>, <<"W","h","a","t"," ","y","o","u","'","l","l"," ","l","e","a","r","n">> >>],
    [heading |-> <<"M","a","i","n"," ","C","o","n","t","e","n","t">>, level |-> SectionLevel,
     subsections |-> << <<"K","e","y"," ","c","o","n","c","e","p","t","s">>, <<"B","e","s","t"," ","p","r","a","c","t","i","c","e","s">>, <<"C","o","m","m","o","n"," ","m","i","s","t","a","k","e","s">> >>],
    [heading |-> <<"C","o","n","c","l","u","s","i","o","n">>, level |-> SectionLevel,
     subsections |-> << <<"K","e","y"," ","t","a","k","e","a","w","a","y","s">>, <<"N","e","x","t"," ","s","t","e","p","s">> >>] >>

\* withFallback that returns what was parsed
withFallbackNever(sections, topic) == sections

\* if (sections.length === 0) sections.push(...)
withFallback(sections, topic) ==
    IF Len(sections) = 0 THEN fallbackSections(topic) ELSE sections

\* the sections of the response, from the generator's text
sectionsOf(aiResponse, topic) ==
    LET lines == outlineLines(aiResponse)
        st == parseLines(lines, Len(lines))
    IN  withFallback(pushCurrent(st.sections, st.currentSection), topic)

\* length === "short" ? 1200 : length === "medium" ? 2500 : 4000
estimatedWordCount(length) ==
    IF length = "short" THEN 1200 ELSE IF length = "medium" THEN 2500 ELSE 4000

\* Math.ceil(estimatedWordCount / 250)
estimatedReadingTime(wordCount_) == (wordCount_ + 249) \div 250

\* the message of the Error thrown when no API key is configured
KeyNotConfigured ==
    <<"H","u","g","g","i","n","g"," ","F","a","c","e"," ","A","P","I"," ","k","e","y"," ","n","o","t"," ","c","o","n","f","i","g","u","r","e","d">>

\* the message of the Error thrown from callHuggingFace's catch block
FailedToGenerate ==
    <<"F","a","i","l","e","d"," ","t","o"," ","g","e","n","e","r","a","t","e"," ","A","I"," ","c","o","n","t","e","n","t">>

\* result[0]?.generated_text || result.generated_text || ""
generatedText(result) ==
    IF result.shape \in {"array", "object"} THEN result.text ELSE <<>>

\* callHuggingFaceSettled that takes a response that is not ok for an empty
\* text
callHuggingFaceLenient(outcome) ==
    IF outcome.kind = "response" /\ ~outcome.ok
    THEN [threw |-> FALSE, value |-> <<>>]
    ELSE IF outcome.kind = "response" /\ outcome.result.shape # "invalid"
    THEN [threw |-> FALSE, value |-> generatedText(outcome.result)]
    ELSE [threw |-> TRUE, message |-> FailedToGenerate]

\* callHuggingFaceSettled that throws when the generator's text is empty
callHuggingFaceStrict(outcome) ==
    IF outcome.kind = "response" /\ outcome.ok /\ outcome.result.shape # "invalid"
       /\ generatedText(outcome.result) # <<>>
    THEN [threw |-> FALSE, value |-> generatedText(outcome.result)]
    ELSE [threw |-> TRUE, message |-> FailedToGenerate]

\* callHuggingFace once its fetch has settled: the text it returns or the
\* Error it throws.  A rejected fetch, a response that is not ok and a body
\* that is no JSON value with properties all end in the catch block.
callHuggingFaceSettled(outcome) ==
    IF outcome.kind = "response" /\ outcome.ok /\ outcome.result.shape # "invalid"
    THEN [threw |-> FALSE, value |-> generatedText(outcome.result)]
    ELSE [threw |-> TRUE, message |-> FailedToGenerate]

\* a handler that calls again after a call that threw
MayCallAgain(call) ==
    \/ call.state = "none"
    \/ IF call.state = "settled" THEN callHuggingFaceSettled(call.outcome).threw ELSE FALSE

\* the handler has yet to reach its one call of callHuggingFace
MayCall(call) == call.state = "none"

\* the fetch callHuggingFace starts; fetches counts the fetches of the request
Pending(prompt) ==
    [state |-> "pending", prompt |-> prompt, authorization |-> apiKey,
     fetches |-> hfCall.fetches + 1]

\* the fetch once the service has answered or the connection has failed
Settled(call, outcome) ==
    [state |-> "settled", prompt |-> call.prompt,
     authorization |-> call.authorization, fetches |-> call.fetches,
     outcome |-> outcome]

BlogOutlinePath == "/api/blog-outline"
MetaDescriptionPath == "/api/meta-description"

OutlineLengths == {"short", "medium", "long"}

\* blogOutlineRequestSchema.parse succeeds
OutlineBodyValid(body) ==
    /\ Len(body.topic) >= MinTopicLen
    /\ IF body.length = <<>> THEN TRUE ELSE body.length[1] \in OutlineLengths

\* length: z.enum([...]).default("medium")
lengthOf(body) == IF body.length = <<>> THEN "medium" ELSE body.length[1]

\* the prompt of the outline, as the values that fill its template
outlinePrompt(body) ==
    [template |-> "Create a detailed blog outline for",
     topic |-> body.topic,
     audienceText |-> IF body.audience # <<>> THEN <<" ","f","o","r"," ">> \o body.audience
                      ELSE <<>>,
     lengthText |-> IF lengthOf(body) = "short" THEN "5-7 sections"
                    ELSE IF lengthOf(body) = "medium" THEN "7-10 sections"
                    ELSE "10-15 sections"]

\* metaDescriptionRequestSchema.parse succeeds
MetaBodyValid(body) == Len(body.title) >= MinTitleLen

\* the prompt of the meta description, as the values that fill its template
metaPrompt(body) ==
    [template |-> "Write a compelling SEO meta description (150-160 characters)",
     title |-> body.title,
     audienceText |-> IF body.audience # <<>> THEN <<" ","f","o","r"," ">> \o body.audience
                      ELSE <<>>]

\* content.length > 160 ? content.substring(0, 160) : content
metaContent(content) ==
    IF Len(content) > MaxMetaLen THEN SubSeq(content, 1, MaxMetaLen) ELSE content

\* Math.min(content.length, 160)
metaLength(content) == IF Len(content) < MaxMetaLen THEN Len(content) ELSE MaxMetaLen

\* blogOutlineRequestSchema.parse throws: the catch block answers 500
BlogOutlineRejected ==
    /\ req.path = BlogOutlinePath
    /\ ~res.sent
    /\ ~OutlineBodyValid(req.body)
    /\ res' = Status500(ZodError)
    /\ UNCHANGED <<req, words, wordCount, apiKey, hfCall, suspended, page>>

\* callHuggingFace throws before any fetch: the catch block answers 500
BlogOutlineNoKey ==
    /\ req.path = BlogOutlinePath
    /\ ~res.sent
    /\ OutlineBodyValid(req.body)
    /\ apiKey = NoApiKey
    /\ res' = Status500(KeyNotConfigured)
    /\ UNCHANGED <<req, words, wordCount, apiKey, hfCall, suspended, page>>

\* the handler up to await fetch(...)
BlogOutlineCalls ==
    /\ req.path = BlogOutlinePath
    /\ ~res.sent
    /\ OutlineBodyValid(req.body)
    /\ apiKey # NoApiKey
    /\ MayCall(hfCall)
    /\ hfCall' = Pending(outlinePrompt(req.body))
    /\ UNCHANGED <<req, res, words, wordCount, apiKey, suspended, page>>

\* callHuggingFace throws after the fetch: the catch block answers 500
BlogOutlineFailed ==
    /\ req.path = BlogOutlinePath
    /\ ~res.sent
    /\ hfCall.state = "settled"
    /\ \E returned \in {callHuggingFaceSettled(hfCall.outcome)} :
          /\ returned.threw
          /\ res' = Status500(returned.message)
    /\ UNCHANGED <<req, words, wordCount, apiKey, hfCall, suspended, page>>

\* the handler from the text callHuggingFace returns to res.json(response)
BlogOutlineAnswered ==
    /\ req.path = BlogOutlinePath
    /\ ~res.sent
    /\ hfCall.state = "settled"
    /\ \E returned \in {callHuggingFaceSettled(hfCall.outcome)} :
          /\ ~returned.threw
          /\ res' = Json([title |-> req.body.topic,
                          sections |-> sectionsOf(returned.value, req.body.topic),
                          estimatedWordCount |-> estimatedWordCount(lengthOf(req.body)),
                          estimatedReadingTime |->
                              estimatedReadingTime(estimatedWordCount(lengthOf(req.body)))])
    /\ UNCHANGED <<req, words, wordCount, apiKey, hfCall, suspended, page>>

\* metaDescriptionRequestSchema.parse throws: the catch block answers 500
MetaDescriptionRejected ==
    /\ req.path = MetaDescriptionPath
    /\ ~res.sent
    /\ ~MetaBodyValid(req.body)
    /\ res' = Status500(ZodError)
    /\ UNCHANGED <<req, words, wordCount, apiKey, hfCall, suspended, page>>

\* callHuggingFace throws before any fetch: the catch block answers 500
MetaDescriptionNoKey ==
    /\ req.path = MetaDescriptionPath
    /\ ~res.sent
    /\ MetaBodyValid(req.body)
    /\ apiKey = NoApiKey
    /\ res' = Status500(KeyNotConfigured)
    /\ UNCHANGED <<req, words, wordCount, apiKey, hfCall, suspended, page>>

\* the handler up to await fetch(...)
MetaDescriptionCalls ==
    /\ req.path = MetaDescriptionPath
    /\ ~res.sent
    /\ MetaBodyValid(req.body)
    /\ apiKey # NoApiKey
    /\ MayCall(hfCall)
    /\ hfCall' = Pending(metaPrompt(req.body))
    /\ UNCHANGED <<req, res, words, wordCount, apiKey, suspended, page>>

\* callHuggingFace throws after the fetch: the catch block answers 500
MetaDescriptionFailed ==
    /\ req.path = MetaDescriptionPath
    /\ ~res.sent
    /\ hfCall.state = "settled"
    /\ \E returned \in {callHuggingFaceSettled(hfCall.outcome)} :
          /\ returned.threw
          /\ res' = Status500(returned.message)
    /\ UNCHANGED <<req, words, wordCount, apiKey, hfCall, suspended, page>>

\* the handler from the text callHuggingFace returns to res.json(response)
MetaDescriptionAnswered ==
    /\ req.path = MetaDescriptionPath
    /\ ~res.sent
    /\ hfCall.state = "settled"
    /\ \E returned \in {callHuggingFaceSettled(hfCall.outcome)} :
          /\ ~returned.threw
          /\ res' = Json([content |-> metaContent(trim(returned.value)),
                          length |-> metaLength(trim(returned.value))])
    /\ UNCHANGED <<req, words, wordCount, apiKey, hfCall, suspended, page>>

(* The generator's texts: MaxLines or fewer lines out of Lines, joined by  *)
(* line feeds.                                                             *)

MaxLines == 4

Lines == {
    <<"1",".","a">>,
    <<"1","2","."," ","b">>,
    <<"\t","3",".">>,
    <<"-">>,
    <<" ","-"," ","e">>,
    <<"1","x">>,
    <<" ">> }

Texts == {join(ls, <<"\n">>) : ls \in UNION {[1..n -> Lines] : n \in 0..MaxLines}}

\* texts around the 160 characters of a meta description
LongTexts == {
    Repeat(<<"x">>, 159),
    Repeat(<<"x">>, 160),
    Repeat(<<"x">>, 161),
    <<" ">> \o Repeat(<<"x">>, 160) \o <<"\n">>,
    <<"\t">> \o Repeat(<<"x"," ">>, 81) }

\* the JSON bodies of the service's responses
Results ==
    {[shape |-> "array", text |-> t] : t \in Texts \cup LongTexts}
        \cup {[shape |-> "object", text |-> t] : t \in {<<>>, <<"1",".","a">>}}
        \cup {[shape |-> "empty"], [shape |-> "invalid"]}

\* the ways the fetch can settle
Outcomes ==
    {[kind |-> "rejected"], [kind |-> "response", ok |-> FALSE]}
        \cup {[kind |-> "response", ok |-> TRUE, result |-> r] : r \in Results}

\* the Hugging Face API answers the pending fetch, or the fetch fails
HuggingFaceSettles ==
    /\ hfCall.state = "pending"
    /\ \E outcome \in Outcomes : hfCall' = Settled(hfCall, outcome)
    /\ UNCHANGED <<req, res, words, wordCount, apiKey, suspended, page>>

OutlineBodies == {
    [topic |-> <<>>, audience |-> <<>>, length |-> <<>>],
    [topic |-> <<"T">>, audience |-> <<>>, length |-> <<"huge">>],
    [topic |-> <<"T">>, audience |-> <<>>, length |-> <<"short">>],
    [topic |-> <<"T">>, audience |-> <<"U">>, length |-> <<>>],
    [topic |-> <<"T">>, audience |-> <<>>, length |-> <<"long">>] }

MetaBodies == {
    [title |-> <<>>, audience |-> <<>>],
    [title |-> <<"T">>, audience |-> <<"U">>] }

ApiKeys == {NoApiKey, "hf_key"}

InitGenerator ==
    /\ req \in {[path |-> BlogOutlinePath, body |-> b] : b \in OutlineBodies}
               \cup {[path |-> MetaDescriptionPath, body |-> b] : b \in MetaBodies}
    /\ res = NoResponse
    /\ words = <<>>
    /\ wordCount = <<>>
    /\ apiKey \in ApiKeys
    /\ hfCall = NoCall
    /\ suspended = NoFrame
    /\ page = NoPage

NextGenerator ==
    \/ BlogOutlineRejected
    \/ BlogOutlineNoKey
    \/ BlogOutlineCalls
    \/ BlogOutlineFailed
    \/ BlogOutlineAnswered
    \/ MetaDescriptionRejected
    \/ MetaDescriptionNoKey
    \/ MetaDescriptionCalls
    \/ MetaDescriptionFailed
    \/ MetaDescriptionAnswered
    \/ HuggingFaceSettles

SpecGenerator == InitGenerator /\ [][NextGenerator]_vars

----------------------------------------------------------------------------
(* The four routes of registerRoutes together: one request to any of them. *)

\* the texts of up to 2 characters
ShortTexts == UNION {[1..n -> TitleChars] : n \in 0..2}

ServerContents == {
    <<>>,
    Repeat(<<"n","e","t"," ">>, 3),
    Repeat(<<"a"," ","b"," ">>, 13),
    Repeat(<<"n","e","t"," ">>, 13),
    Sweep(TopN + 1) }

ServerRequests ==
    {[path |-> TitleCasePath, body |-> t] : t \in ShortTexts}
        \cup {[path |-> KeywordDensityPath, body |-> c] : c \in ServerContents}
        \cup {[path |-> BlogOutlinePath, body |-> b] : b \in OutlineBodies}
        \cup {[path |-> MetaDescriptionPath, body |-> b] : b \in MetaBodies}

InitServer ==
    /\ req \in ServerRequests
    /\ res = NoResponse
    /\ words = <<>>
    /\ wordCount = <<>>
    /\ apiKey \in ApiKeys
    /\ hfCall = NoCall
    /\ suspended = NoFrame
    /\ page = NoPage

NextServer == NextTitleCase \/ NextKeywordDensity \/ NextGenerator

SpecServer == InitServer /\ [][NextServer]_vars

-----------------------------------------------------------------------------
(* Two requests handled concurrently.  A handler runs from one await to the *)
(* next without interruption; at an await, and when a handler has answered, *)
(* the event loop may run the other handler.  req, res, words, wordCount    *)
(* and hfCall are the locals of the handler that runs, suspended holds the  *)
(* locals of the other one, and apiKey belongs to the process.              *)

\* the locals of the handler that runs, as they are kept while it waits
Frame ==
    [handling |-> TRUE, req |-> req, res |-> res, words |-> words,
     wordCount |-> wordCount, hfCall |-> hfCall]

\* a call kept in one variable of the module, whichever handler resumes
sharedCall(frame) == hfCall

\* const aiResponse = await callHuggingFace(prompt): the call a handler
\* resumes with is the one it made itself
localCall(frame) == frame.hfCall

\* the event loop leaves the handler that runs and resumes the other one
Switch ==
    /\ suspended.handling
    /\ suspended' = Frame
    /\ req' = suspended.req
    /\ res' = suspended.res
    /\ words' = suspended.words
    /\ wordCount' = suspended.wordCount
    /\ hfCall' = localCall(suspended)
    /\ UNCHANGED <<apiKey, page>>

ConcurrentRequests == {
    [path |-> TitleCasePath, body |-> <<>>],
    [path |-> TitleCasePath, body |-> <<"N", "a">>],
    [path |-> KeywordDensityPath, body |-> Repeat(<<"n","e","t"," ">>, 3)],
    [path |-> KeywordDensityPath, body |-> Repeat(<<"a"," ","b"," ">>, 13)],
    [path |-> BlogOutlinePath,
     body |-> [topic |-> <<>>, audience |-> <<>>, length |-> <<>>]],
    [path |-> BlogOutlinePath,
     body |-> [topic |-> <<"T">>, audience |-> <<>>, length |-> <<"short">>]],
    [path |-> BlogOutlinePath,
     body |-> [topic |-> <<"T">>, audience |-> <<"U">>, length |-> <<>>]],
    [path |-> MetaDescriptionPath, body |-> [title |-> <<>>, audience |-> <<>>]],
    [path |-> MetaDescriptionPath, body |-> [title |-> <<"T">>, audience |-> <<"U">>]] }

\* a few of the ways a fetch can settle
ConcurrentOutcomes == {
    [kind |-> "rejected"],
    [kind |-> "response", ok |-> FALSE],
    [kind |-> "response", ok |-> TRUE, result |-> [shape |-> "empty"]],
    [kind |-> "response", ok |-> TRUE,
     result |-> [shape |-> "array", text |-> <<"1",".","a","\n"," ","-"," ","e">>]],
    [kind |-> "response", ok |-> TRUE,
     result |-> [shape |-> "array", text |-> Repeat(<<"x">>, 161)]] }

\* the Hugging Face API answers the pending fetch of the handler that runs,
\* or the fetch fails
HuggingFaceSettlesOne ==
    /\ hfCall.state = "pending"
    /\ \E outcome \in ConcurrentOutcomes : hfCall' = Settled(hfCall, outcome)
    /\ UNCHANGED <<req, res, words, wordCount, apiKey, suspended, page>>

InitConcurrent ==
    /\ req \in ConcurrentRequests
    /\ res = NoResponse
    /\ words = <<>>
    /\ wordCount = <<>>
    /\ apiKey \in ApiKeys
    /\ hfCall = NoCall
    /\ \E other \in ConcurrentRequests :
          suspended = [handling |-> TRUE, req |-> other, res |-> NoResponse,
                       words |-> <<>>, wordCount |-> <<>>, hfCall |-> NoCall]
    /\ page = NoPage

NextConcurrent ==
    \/ Switch
    \/ TitleCaseRejected
    \/ TitleCaseConverted
    \/ KeywordDensityRejected
    \/ KeywordDensityAnalyzed
    \/ BlogOutlineRejected
    \/ BlogOutlineNoKey
    \/ BlogOutlineCalls
    \/ BlogOutlineFailed
    \/ BlogOutlineAnswered
    \/ MetaDescriptionRejected
    \/ MetaDescriptionNoKey
    \/ MetaDescriptionCalls
    \/ MetaDescriptionFailed
    \/ MetaDescriptionAnswered
    \/ HuggingFaceSettlesOne

SpecConcurrent == InitConcurrent /\ [][NextConcurrent]_vars

-----------------------------------------------------------------------------
(* The keyword density tool page: the form, the mutation that posts it to   *)
(* /api/keyword-density, and the result shown under the form.  The blog     *)
(* outline, title case and meta description pages are built the same way.   *)

\* the page sent no request yet
NoRequest == [path |-> ""]

\* useState(null): no result is displayed
NoResult == [shown |-> FALSE]

\* setResult(data): the result is displayed
Shown(data) == [shown |-> TRUE, data |-> data]

\* what the user types in the content field
PageContents == {
    Repeat(<<"n","e","t"," ">>, 3),
    Repeat(<<"a"," ","b"," ">>, 13),
    Repeat(<<"n","e","t"," ">>, 13),
    Sweep(TopN + 1) }

\* the textarea's onChange
handleContentChange ==
    /\ page.open
    /\ \E content \in PageContents :
          /\ page.content # content
          /\ page' = [page EXCEPT !.content = content]
    /\ UNCHANGED <<req, res, words, wordCount, apiKey, hfCall, suspended>>

\* the submit button, enabled while no mutation is pending: the resolver
\* validates the form, onSubmit starts the mutation and the request leaves.
\* cleared records whether Clear was pressed since this submit.
onSubmit ==
    /\ page.open
    /\ ~page.isPending
    /\ Len(page.content) >= MinContentLen
    /\ page' = [page EXCEPT !.isPending = TRUE, !.cleared = FALSE]
    /\ req' = [path |-> KeywordDensityPath, body |-> page.content]
    /\ res' = NoResponse
    /\ words' = <<>>
    /\ wordCount' = <<>>
    /\ UNCHANGED <<apiKey, hfCall, suspended>>

\* the Clear button, enabled at all times
clearForm ==
    /\ page.open
    /\ page' = [page EXCEPT !.content = <<>>, !.result = NoResult, !.cleared = TRUE]
    /\ UNCHANGED <<req, res, words, wordCount, apiKey, hfCall, suspended>>

\* the response of the pending request arrives: the mutation's onSuccess
onSuccess ==
    /\ page.open
    /\ page.isPending
    /\ res.sent
    /\ res.status = 200
    /\ page' = [page EXCEPT !.result = Shown(res.json), !.isPending = FALSE]
    /\ UNCHANGED <<req, res, words, wordCount, apiKey, hfCall, suspended>>

\* the pending request fails (the connection is lost): the mutation's onError
\* shows a toast and leaves the result as it is
onError ==
    /\ page.open
    /\ page.isPending
    /\ page' = [page EXCEPT !.isPending = FALSE]
    /\ UNCHANGED <<req, res, words, wordCount, apiKey, hfCall, suspended>>

InitToolPage ==
    /\ req = NoRequest
    /\ res = NoResponse
    /\ words = <<>>
    /\ wordCount = <<>>
    /\ apiKey = NoApiKey
    /\ hfCall = NoCall
    /\ suspended = NoFrame
    /\ page = [open |-> TRUE, content |-> <<>>, result |-> NoResult,
               isPending |-> FALSE, cleared |-> FALSE]

NextToolPage ==
    \/ handleContentChange
    \/ onSubmit
    \/ clearForm
    \/ KeywordDensityAnalyzed
    \/ onSuccess
    \/ onError

SpecToolPage == InitToolPage /\ [][NextToolPage]_vars

----------------------------------------------------------------------------
(* Properties of the title-case conversion.                                *)

TitleCaseAnswered == req.path = TitleCasePath /\ res.sent /\ res.status = 200

\* where word i of ws begins in ws joined by single separators
RECURSIVE WordStart(_, _)
WordStart(ws, i) == IF i = 1 THEN 1 ELSE WordStart(ws, i - 1) + Len(ws[i - 1]) + 1

\* C1: the first and the last word of the split text begin with their first
\* character upper-cased in the converted title, stop words included.
C1_FirstLastCapitalized ==
    TitleCaseAnswered =>
        LET c == res.json.converted
            n == Len(words)
        IN  /\ n >= 1
            /\ \A i \in {1, n} :
                  words[i] # <<>> =>
                      LET p == WordStart(words, i)
                      IN  /\ p \in DOMAIN c
                          /\ c[p] = UpperChar(words[i][1])
                          /\ ~IsLower(c[p])

\* C1 witness: a converted text of three or more words that begins and ends
\* with a stop word.
C1_Witness ==
    /\ TitleCaseAnswered
    /\ Len(words) >= 3
    /\ words[1] \in stopWords
    /\ words[Len(words)] \in stopWords

\* C2: an interior stop word stays entirely lower-case, any other interior
\* word begins upper-cased; when every interior word is a stop word the only
\* upper-case characters of the title begin its first and its last word.
C2_InteriorWords ==
    TitleCaseAnswered =>
        LET c == res.json.converted
            n == Len(words)
            interior == 2..(n - 1)
        IN  /\ \A i \in interior :
                  LET w == words[i]
                      p == WordStart(words, i)
                  IN  /\ p + Len(w) - 1 \in DOMAIN c
                      /\ IF w \in stopWords
                         THEN SubSeq(c, p, p + Len(w) - 1) = w
                         ELSE c[p] = UpperChar(w[1]) /\ ~IsLower(c[p])
            /\ (n >= 2 /\ \A i \in interior : words[i] \in stopWords) =>
                  \A p \in DOMAIN c :
                      IsUpper(c[p]) => p \in {1, WordStart(words, n)}

\* C2 witness: a converted text that begins and ends with a word and has an
\* interior stop word and an interior word that is no stop word.
C2_Witness ==
    /\ TitleCaseAnswered
    /\ words[1] # <<>>
    /\ words[Len(words)] # <<>>
    /\ \E i, j \in 2..(Len(words) - 1) :
          words[i] \in stopWords /\ words[j] \notin stopWords

\* C14: converting the converted title again yields the same title.
C14_Idempotent ==
    TitleCaseAnswered =>
        LET again == split(toLowerCase(res.json.converted))
        IN  join(convertedWords(again), <<" ">>) = res.json.converted

\* C14 witness: a converted title of three or more words that differs from
\* the text it was made from, an interior stop word kept lower-case.
C14_Witness ==
    /\ TitleCaseAnswered
    /\ Len(words) >= 3
    /\ res.json.converted # req.body
    /\ \E i \in 2..(Len(words) - 1) : words[i] \in stopWords
    /\ \E p \in DOMAIN res.json.converted : IsUpper(res.json.converted[p])

HasSpace(s) == \E i \in DOMAIN s : IsSpace(s[i])

\* C15: the title of a text that is one word is that word with its first
\* character in upper case and every other character in lower case, stop
\* words included.
C15_SingleWord ==
    (TitleCaseAnswered /\ ~HasSpace(req.body)) =>
        LET c == res.json.converted
        IN  /\ Len(c) = Len(req.body)
            /\ c[1] = UpperChar(req.body[1])
            /\ ~IsLower(c[1])
            /\ \A i \in 2..Len(c) : c[i] = LowerChar(req.body[i]) /\ ~IsUpper(c[i])

\* C15 witness: the converted title of a single stop word written with an
\* upper-case letter after its first character.
C15_Witness ==
    /\ TitleCaseAnswered
    /\ ~HasSpace(req.body)
    /\ toLowerCase(req.body) \in stopWords
    /\ \E i \in 2..Len(req.body) : IsUpper(req.body[i])
    /\ IsLower(req.body[1])

\* C16: every conversion returns the same list of four rules, whichever
\* rules fired.
C16_RulesAppliedFixed ==
    TitleCaseAnswered =>
        res.json.rulesApplied =
            << "Capitalized major words (nouns, verbs, adjectives)",
               "Kept articles lowercase (a, an, the)",
               "Kept prepositions lowercase (for, to, in, of, etc.)",
               "Capitalized first and last words" >>

\* C16 witness: the conversion of a single word that is no stop word, where
\* no article or preposition was kept lower-case.
C16_Witness ==
    /\ TitleCaseAnswered
    /\ Len(words) = 1
    /\ words[1] \notin stopWords
    /\ Len(res.json.rulesApplied) = 4

NonEmptyWords(ws) == {i \in DOMAIN ws : ws[i] # <<>>}

\* C20 (the claim as stated): the first and the last non-empty word of a
\* text begin upper-cased in the title, white space around the text and
\* stop words notwithstanding.
C20_FirstLastNonEmptyCapitalized ==
    TitleCaseAnswered =>
        \A i \in NonEmptyWords(words) :
            (\A j \in NonEmptyWords(words) : i <= j) \/ (\A j \in NonEmptyWords(words) : i >= j) =>
                LET p == WordStart(words, i)
                IN  res.json.converted[p] = UpperChar(words[i][1])


----------------------------------------------------------------------------
(* Properties of the keyword density analysis.                             *)

KeywordDensityAnswered ==
    req.path = KeywordDensityPath /\ res.sent /\ res.status = 200

\* how often word w occurs in the sequence ws
Occurrences(ws, w) == Cardinality({i \in DOMAIN ws : ws[i] = w})

RECURSIVE TotalCount(_, _)
TotalCount(m, k) == IF k = 0 THEN 0 ELSE TotalCount(m, k - 1) + m[k].count

RECURSIVE TotalDensity(_, _)
TotalDensity(ks, k) == IF k = 0 THEN 0 ELSE TotalDensity(ks, k - 1) + ks[k].density

RECURSIVE TotalFrequency(_, _)
TotalFrequency(ks, k) == IF k = 0 THEN 0 ELSE TotalFrequency(ks, k - 1) + ks[k].frequency

Abs(x) == IF x < 0 THEN -x ELSE x

\* C3: the frequency recorded for a distinct token is the number of its
\* occurrences in the normalized, filtered token sequence, every token is
\* recorded once, and the frequencies of all distinct tokens add up to
\* totalWords.
C3_FrequencyIsOccurrences ==
    KeywordDensityAnswered =>
        /\ \A i \in DOMAIN wordCount :
              wordCount[i].count = Occurrences(words, wordCount[i].word)
        /\ \A i, j \in DOMAIN wordCount :
              wordCount[i].word = wordCount[j].word => i = j
        /\ \A i \in DOMAIN words : HasKey(wordCount, words[i])
        /\ \A k \in DOMAIN res.json.keywords :
              res.json.keywords[k].frequency
                  = Occurrences(words, res.json.keywords[k].word)
        /\ TotalCount(wordCount, Len(wordCount)) = res.json.totalWords

\* C3 witness: an analysis with more distinct tokens than are returned, one
\* of them occurring more than once.
C3_Witness ==
    /\ KeywordDensityAnswered
    /\ Len(wordCount) > TopN
    /\ \E i \in DOMAIN wordCount : wordCount[i].count >= 2

\* C4: a returned density is 100 * frequency / totalWords to the nearest
\* hundredth, totalWords being the number of normalized tokens longer than 2
\* characters.
C4_DensityOverFilteredTotal ==
    KeywordDensityAnswered =>
        LET pieces == split(replaceNonWord(toLowerCase(req.body)))
            t == res.json.totalWords
        IN  /\ t = Cardinality({i \in DOMAIN pieces : Len(pieces[i]) > MinWordLen})
            /\ \A k \in DOMAIN res.json.keywords :
                  LET stat == res.json.keywords[k]
                  IN  2 * Abs(stat.density * t - 10000 * stat.frequency) <= t

\* C4 witness: an analysis of a content with words of 2 characters or fewer
\* among its 50 or more words, and a density that is no whole hundredth.
C4_Witness ==
    /\ KeywordDensityAnswered
    /\ LET raw == split(req.body)
       IN  /\ Len(raw) >= 50
           /\ \E i \in DOMAIN raw : Len(raw[i]) \in 1..MinWordLen
           /\ res.json.totalWords < Len(raw)
    /\ \E k \in DOMAIN res.json.keywords :
          (10000 * res.json.keywords[k].frequency) % res.json.totalWords # 0

\* C5 (the claim as stated): the returned density of every keyword lies in
\* the band of its status: low below 1, good in [1, 2), optimal in [2, 4),
\* high from 4.
C5_DensityInStatusBand ==
    KeywordDensityAnswered =>
        \A k \in DOMAIN res.json.keywords :
            LET stat == res.json.keywords[k]
            IN  /\ stat.status = "low" => stat.density < 100
                /\ stat.status = "good" => stat.density >= 100 /\ stat.density < 200
                /\ stat.status = "optimal" => stat.density >= 200 /\ stat.density < 400
                /\ stat.status = "high" => stat.density >= 400

\* C6: at most 20 keywords are returned, in non-increasing frequency, and no
\* distinct token left out occurs more often than a returned one.
C6_TopTwentyByFrequency ==
    KeywordDensityAnswered =>
        LET ks == res.json.keywords
        IN  /\ Len(ks) <= TopN
            /\ \A i, j \in DOMAIN ks : i < j => ks[i].frequency >= ks[j].frequency
            /\ \A i \in DOMAIN wordCount :
                  (\A k \in DOMAIN ks : ks[k].word # wordCount[i].word) =>
                      \A k \in DOMAIN ks : wordCount[i].count <= ks[k].frequency

\* C6 witness: more than 20 distinct tokens, and a returned token that first
\* occurs after 20 others and more often than a token left out.
C6_Witness ==
    /\ KeywordDensityAnswered
    /\ Len(wordCount) > TopN
    /\ \E i, j \in DOMAIN wordCount :
          /\ j > TopN
          /\ wordCount[j].count > wordCount[i].count
          /\ \E k \in DOMAIN res.json.keywords :
                res.json.keywords[k].word = wordCount[j].word
          /\ \A k \in DOMAIN res.json.keywords :
                res.json.keywords[k].word # wordCount[i].word

\* C7: uniqueKeywords is the number of distinct filtered tokens, so it is at
\* least the length of the returned list, and equal to it exactly when there
\* are at most 20 distinct tokens.
C7_UniqueKeywordsBeforeTruncation ==
    KeywordDensityAnswered =>
        LET distinct == Cardinality({words[i] : i \in DOMAIN words})
            returned == Len(res.json.keywords)
        IN  /\ res.json.uniqueKeywords = distinct
            /\ res.json.uniqueKeywords >= returned
            /\ (res.json.uniqueKeywords = returned) <=> (distinct <= TopN)

\* C7 witness: an analysis with more than 20 distinct tokens.
C7_Witness ==
    /\ KeywordDensityAnswered
    /\ res.json.uniqueKeywords > TopN
    /\ Len(res.json.keywords) = TopN

\* C8 (the claim as stated): with an empty keyword list avgDensity is still
\* a defined number.
C8_AvgDensityDefinedWhenEmpty ==
    (KeywordDensityAnswered /\ Len(res.json.keywords) = 0) =>
        ~res.json.avgDensity.isNaN

\* C9: for a non-empty list avgDensity is the mean of the returned, already
\* rounded densities, to the nearest hundredth.
C9_AvgOfReturnedRoundedDensities ==
    (KeywordDensityAnswered /\ Len(res.json.keywords) > 0) =>
        LET ks == res.json.keywords
            n == Len(ks)
        IN  /\ ~res.json.avgDensity.isNaN
            /\ 2 * Abs(res.json.avgDensity.hundredths * n - TotalDensity(ks, n)) <= n

\* C9 witness: more distinct tokens than are returned, and an avgDensity that
\* differs from the unrounded densities' mean rounded once.
C9_Witness ==
    /\ KeywordDensityAnswered
    /\ Len(wordCount) > TopN
    /\ LET ks == res.json.keywords
           n == Len(ks)
       IN  2 * Abs(res.json.avgDensity.hundredths * n * res.json.totalWords
                   - 10000 * TotalFrequency(ks, n)) > n * res.json.totalWords

\* C10: topKeywordDensity is the density of the first returned keyword, a
\* token of the highest frequency, and 0 when no keyword is returned.
C10_TopKeywordDensityIsFirst ==
    KeywordDensityAnswered =>
        LET ks == res.json.keywords
        IN  IF Len(ks) = 0
            THEN res.json.topKeywordDensity = 0
            ELSE /\ res.json.topKeywordDensity = ks[1].density
                 /\ \A i \in DOMAIN wordCount : wordCount[i].count <= ks[1].frequency

\* C10 witness: a returned list whose first keyword is denser than its
\* second.
C10_Witness ==
    /\ KeywordDensityAnswered
    /\ Len(res.json.keywords) >= 2
    /\ res.json.keywords[1].density > res.json.keywords[2].density
    /\ res.json.topKeywordDensity > 0

\* the non-empty pieces of the content between its runs of white space
RawTokens(content) == SelectSeq(split(content), LAMBDA w : w # <<>>)

\* the content is one token longer than 2 characters, made of word
\* characters, repeated
IsRepetition(content) ==
    LET raw == RawTokens(content)
    IN  /\ Len(raw) >= 1
        /\ Len(raw[1]) > MinWordLen
        /\ \A i \in DOMAIN raw[1] : IsWordChar(raw[1][i])
        /\ \A i \in DOMAIN raw : raw[i] = raw[1]

\* C17: a content of n repetitions of one token longer than 2 characters is
\* analysed as totalWords = n, uniqueKeywords = 1 and one keyword with
\* frequency n, density 100.00 and status high.
C17_OneTokenRepeated ==
    (KeywordDensityAnswered /\ IsRepetition(req.body)) =>
        LET raw == RawTokens(req.body)
            n == Len(raw)
        IN  /\ res.json.totalWords = n
            /\ res.json.uniqueKeywords = 1
            /\ res.json.keywords =
                  << [word |-> toLowerCase(raw[1]), frequency |-> n,
                      density |-> 10000, status |-> "high"] >>

\* C17 witness: the analysis of a content of 60 repetitions of one token.
C17_Witness ==
    /\ KeywordDensityAnswered
    /\ IsRepetition(req.body)
    /\ Len(RawTokens(req.body)) = 60
    /\ Len(res.json.keywords) = 1

----------------------------------------------------------------------------
(* Properties of the blog outline and of the calls to the generator.       *)

BlogOutlineSucceeded == req.path = BlogOutlinePath /\ res.sent /\ res.status = 200

\* the text the generator returned to the handler
GeneratorText == generatedText(hfCall.outcome.result)

\* a line of text begins at p
LineBegins(text, p) == p = 1 \/ text[p - 1] = "\n"

\* at p: blanks, then one or more digits, then a period
NumberedAt(text, p) ==
    \E d \in p..Len(text) : \E e \in (d + 1)..Len(text) :
        /\ \A i \in p..(d - 1) : text[i] \in {" ", "\t"}
        /\ \A i \in d..(e - 1) : text[i] \in Digits
        /\ text[e] = "."

HasNumberedLine(text) ==
    \E p \in DOMAIN text : LineBegins(text, p) /\ NumberedAt(text, p)

\* at p: blanks, then a dash
DashAt(text, p) ==
    \E d \in p..Len(text) :
        /\ \A i \in p..(d - 1) : text[i] \in {" ", "\t"}
        /\ text[d] = "-"

IsFallback(sections, topic) ==
    IF Len(sections) # 3 THEN FALSE
    ELSE /\ sections[1].heading = <<"I","n","t","r","o","d","u","c","t","i","o","n">>
         /\ sections[2].heading = <<"M","a","i","n"," ","C","o","n","t","e","n","t">>
         /\ sections[3].heading = <<"C","o","n","c","l","u","s","i","o","n">>
         /\ Len(sections[1].subsections) = 2
         /\ Len(sections[2].subsections) = 3
         /\ Len(sections[3].subsections) = 2
         /\ sections[1].subsections[1] =
               <<"W","h","y"," ">> \o topic \o <<" ","m","a","t","t","e","r","s">>
         /\ sections[3].subsections[2] = <<"N","e","x","t"," ","s","t","e","p","s">>

\* C11: the outline is the fixed three-section fallback exactly when no line
\* of the generator's text starts with digits and a period, and it is never
\* empty.
C11_FallbackIffNoNumberedLine ==
    BlogOutlineSucceeded =>
        /\ IsFallback(res.json.sections, req.body.topic) <=> ~HasNumberedLine(GeneratorText)
        /\ Len(res.json.sections) >= 1

\* C11 witness: the fallback returned for a text that has a dash line and a
\* plain line but no numbered line.
C11_Witness ==
    /\ BlogOutlineSucceeded
    /\ IsFallback(res.json.sections, req.body.topic)
    /\ \E p \in DOMAIN GeneratorText :
          LineBegins(GeneratorText, p) /\ DashAt(GeneratorText, p)
    /\ \E p \in DOMAIN GeneratorText :
          LineBegins(GeneratorText, p) /\ GeneratorText[p] \in Digits

LineStarts(text) == {p \in DOMAIN text : LineBegins(text, p)}

NumberedStarts(text) == {p \in LineStarts(text) : NumberedAt(text, p)}

\* the j-th smallest member of a set of numbers
Nth(S, j) == CHOOSE p \in S : Cardinality({q \in S : q < p}) = j - 1

\* the last position of the line that begins at p
LineEnd(text, p) ==
    CHOOSE e \in (p - 1)..Len(text) :
        /\ e = Len(text) \/ text[e + 1] = "\n"
        /\ \A i \in p..e : text[i] # "\n"

\* the first position of the line at p that holds no blank
FirstMark(text, p) ==
    CHOOSE d \in p..Len(text) :
        /\ text[d] \notin {" ", "\t"}
        /\ \A i \in p..(d - 1) : text[i] \in {" ", "\t"}

\* the period that ends the number of the numbered line at p
PeriodOf(text, p) ==
    CHOOSE e \in FirstMark(text, p)..Len(text) :
        /\ text[e] = "."
        /\ \A i \in FirstMark(text, p)..(e - 1) : text[i] \in Digits

\* the line at p after position mark, without the white space around it
LineAfter(text, p, mark) ==
    LET kept == {i \in (mark + 1)..LineEnd(text, p) : ~IsSpace(text[i])}
    IN  IF kept = {} THEN <<>>
        ELSE SubSeq(text, Nth(kept, 1), Nth(kept, Cardinality(kept)))

\* the dash lines between the j-th numbered line and the next one
DashStartsOf(text, j) ==
    LET N == NumberedStarts(text)
        from == Nth(N, j)
        to == IF j < Cardinality(N) THEN Nth(N, j + 1) ELSE Len(text) + 1
    IN  {p \in LineStarts(text) : p > from /\ p < to /\ DashAt(text, p)}

\* C12: a text with k >= 1 numbered lines gives k sections in the order of
\* those lines, and a section's subsections are the dash lines between its
\* numbered line and the next, in order, without the dash and the white
\* space after it.
C12_SectionsFollowNumberedLines ==
    (BlogOutlineSucceeded /\ HasNumberedLine(GeneratorText)) =>
        LET text == GeneratorText
            N == NumberedStarts(text)
            sections == res.json.sections
        IN  /\ Len(sections) = Cardinality(N)
            /\ \A j \in DOMAIN sections :
                  LET D == DashStartsOf(text, j)
                      subs == sections[j].subsections
                  IN  /\ sections[j].heading
                            = LineAfter(text, Nth(N, j), PeriodOf(text, Nth(N, j)))
                      /\ Len(subs) = Cardinality(D)
                      /\ \A m \in DOMAIN subs :
                            subs[m] = LineAfter(text, Nth(D, m), FirstMark(text, Nth(D, m)))

\* C12 witness: an outline of two sections from a text that has a dash line
\* before its first numbered line and one after it.
C12_Witness ==
    /\ BlogOutlineSucceeded
    /\ Len(res.json.sections) = 2
    /\ Len(res.json.sections[1].subsections) = 1
    /\ res.json.sections[1].heading # res.json.sections[2].heading
    /\ DashAt(GeneratorText, 1)

\* C13: every section of an outline, parsed or fallback, has level 2; a
\* parsed section's heading is its numbered line without the digits, the
\* period and the white space after it, and the section starts without
\* subsections: it has none unless dash lines follow its numbered line.
C13_LevelTwoAndHeading ==
    BlogOutlineSucceeded =>
        LET text == GeneratorText
            sections == res.json.sections
        IN  /\ \A j \in DOMAIN sections : sections[j].level = 2
            /\ HasNumberedLine(text) =>
                  \A j \in DOMAIN sections :
                      LET n == Nth(NumberedStarts(text), j)
                      IN  /\ sections[j].heading = LineAfter(text, n, PeriodOf(text, n))
                          /\ DashStartsOf(text, j) = {} => sections[j].subsections = <<>>

\* C13 witness: an outline whose first section has a subsection and whose
\* second section, from a line with a two-digit number and a space after the
\* period, has none.
C13_Witness ==
    /\ BlogOutlineSucceeded
    /\ Len(res.json.sections) >= 2
    /\ res.json.sections[1].subsections # <<>>
    /\ res.json.sections[2].subsections = <<>>
    /\ res.json.sections[2].heading = <<"b">>
    /\ res.json.sections[2].level = 2

OnGeneratorRoute == req.path \in {BlogOutlinePath, MetaDescriptionPath}

\* the service answered the fetch with a status that is no success
AnsweredNotOk ==
    /\ hfCall.state = "settled"
    /\ hfCall.outcome.kind = "response"
    /\ ~hfCall.outcome.ok

ServiceUnusable == apiKey = NoApiKey \/ AnsweredNotOk

\* the steps by which a handler answers 500
AnswersFailure ==
    \/ BlogOutlineRejected
    \/ BlogOutlineNoKey
    \/ BlogOutlineFailed
    \/ MetaDescriptionRejected
    \/ MetaDescriptionNoKey
    \/ MetaDescriptionFailed

\* C18: with no API key, or a response of the service that is not ok, a
\* meta-description or blog-outline request is answered with status 500 and
\* a message: the handler's next step is that answer, and no success payload
\* is sent.
C18_UnusableServiceAnswers500 ==
    (OnGeneratorRoute /\ ServiceUnusable) =>
        IF res.sent
        THEN /\ res.status = 500
             /\ DOMAIN res.json = {"message"}
             /\ Len(res.json.message) > 0
        ELSE ENABLED AnswersFailure

\* C18 witness: a blog-outline request with a valid body answered 500 after
\* the service's response was not ok.
C18_Witness ==
    /\ req.path = BlogOutlinePath
    /\ OutlineBodyValid(req.body)
    /\ AnsweredNotOk
    /\ res.sent
    /\ res.status = 500

\* the generator returned a text to the handler
TextReturned ==
    /\ hfCall.state = "settled"
    /\ hfCall.outcome.kind = "response"
    /\ hfCall.outcome.ok
    /\ hfCall.outcome.result.shape # "invalid"

\* C19: whatever text the generator returns, the empty text and texts
\* without a numbered line included, the blog-outline request is answered
\* with a success payload whose sections are the parsed ones or the
\* fallback; no text makes the handler fail: before the answer, the call
\* has returned and not thrown.
C19_AnyTextSucceeds ==
    (req.path = BlogOutlinePath /\ TextReturned) =>
        IF res.sent
        THEN /\ res.status = 200
             /\ \/ IsFallback(res.json.sections, req.body.topic)
                \/ /\ HasNumberedLine(GeneratorText)
                   /\ Len(res.json.sections) = Cardinality(NumberedStarts(GeneratorText))
        ELSE ~callHuggingFaceSettled(hfCall.outcome).threw

\* C19 witness: the fallback outline answered for an empty text.
C19_Witness ==
    /\ BlogOutlineSucceeded
    /\ GeneratorText = <<>>
    /\ IsFallback(res.json.sections, req.body.topic)

----------------------------------------------------------------------------
(* Further properties of the keyword density analysis.                     *)

\* where the token w first occurs in the token sequence ws
FirstOccurrence(ws, w) ==
    CHOOSE i \in DOMAIN ws : ws[i] = w /\ \A j \in 1..(i - 1) : ws[j] # w

Returned(w) == \E k \in DOMAIN res.json.keywords : res.json.keywords[k].word = w

\* C21: returned keywords of equal frequency stand in the order of their
\* first occurrence in the content, and a token left out occurs first after
\* every returned token of its frequency.
C21_TiesInFirstOccurrenceOrder ==
    KeywordDensityAnswered =>
        LET ks == res.json.keywords
        IN  /\ \A i, j \in DOMAIN ks :
                  (i < j /\ ks[i].frequency = ks[j].frequency) =>
                      FirstOccurrence(words, ks[i].word) < FirstOccurrence(words, ks[j].word)
            /\ \A e \in DOMAIN wordCount :
                  ~Returned(wordCount[e].word) =>
                      \A k \in DOMAIN ks :
                          ks[k].frequency = wordCount[e].count =>
                              FirstOccurrence(words, ks[k].word)
                                  < FirstOccurrence(words, wordCount[e].word)

\* C21 witness: more than 20 distinct tokens, a token left out that is as
\* frequent as the last returned one, and two returned tokens of one
\* frequency behind a more frequent token that occurs after them.
C21_Witness ==
    /\ KeywordDensityAnswered
    /\ Len(wordCount) > TopN
    /\ \E e \in DOMAIN wordCount :
          /\ ~Returned(wordCount[e].word)
          /\ wordCount[e].count = res.json.keywords[TopN].frequency
    /\ res.json.keywords[2].frequency = res.json.keywords[3].frequency
    /\ FirstOccurrence(words, res.json.keywords[1].word)
          > FirstOccurrence(words, res.json.keywords[3].word)

\* position i of content holds a word character
WordAt(content, i) == i \in DOMAIN content /\ IsWordChar(content[i])

\* a maximal run of word characters of content begins at i
RunBegins(content, i) == WordAt(content, i) /\ ~WordAt(content, i - 1)

\* the last position of the run of word characters that begins at i
RunEnd(content, i) ==
    CHOOSE e \in i..Len(content) :
        /\ ~WordAt(content, e + 1)
        /\ \A k \in i..e : WordAt(content, k)

\* a run of more than 2 word characters begins at i
LongRunBegins(content, i) ==
    /\ RunBegins(content, i)
    /\ WordAt(content, i + 1)
    /\ WordAt(content, i + 2)

\* where the runs of more than 2 word characters begin, in order
LongRuns(content) ==
    SelectSeq([i \in 1..Len(content) |-> i], LAMBDA i : LongRunBegins(content, i))

\* C22: the counted tokens are the maximal runs of word characters of the
\* content that are longer than 2, in lower case, in order: every token is
\* lower-case, of word characters only and longer than 2; shorter runs count
\* neither in totalWords nor in a frequency, and a punctuation character
\* inside a word ends one run and begins another.
C22_TokensAreLongWordRuns ==
    KeywordDensityAnswered =>
        LET runs == LongRuns(req.body)
        IN  /\ res.json.totalWords = Len(runs)
            /\ Len(words) = Len(runs)
            /\ \A k \in DOMAIN words :
                  LET i == runs[k]
                      w == words[k]
                  IN  /\ Len(w) = RunEnd(req.body, i) - i + 1
                      /\ Len(w) > 2
                      /\ \A c \in DOMAIN w :
                            /\ w[c] = LowerChar(req.body[i + c - 1])
                            /\ IsWordChar(w[c])
                            /\ ~IsUpper(w[c])
            /\ \A e \in DOMAIN wordCount :
                  /\ Len(wordCount[e].word) > 2
                  /\ \E k \in DOMAIN words : words[k] = wordCount[e].word

\* C22 witness: an analysis of a content with an upper-case word, a word
\* that a hyphen splits into two counted tokens and words too short to
\* count.
C22_Witness ==
    /\ KeywordDensityAnswered
    /\ \E i \in DOMAIN req.body : IsUpper(req.body[i])
    /\ \E i \in DOMAIN req.body :
          req.body[i] = "-" /\ LongRunBegins(req.body, i + 1)
    /\ \E i \in DOMAIN req.body :
          RunBegins(req.body, i) /\ ~LongRunBegins(req.body, i)
    /\ res.json.totalWords > 0

\* C29: with a non-empty keyword list topKeywordDensity is the greatest
\* density of the returned keywords, and avgDensity is not above it.
C29_TopIsMaxAndBoundsAvg ==
    (KeywordDensityAnswered /\ Len(res.json.keywords) > 0) =>
        /\ \E k \in DOMAIN res.json.keywords :
              res.json.keywords[k].density = res.json.topKeywordDensity
        /\ \A k \in DOMAIN res.json.keywords :
              res.json.keywords[k].density <= res.json.topKeywordDensity
        /\ ~res.json.avgDensity.isNaN
        /\ res.json.avgDensity.hundredths <= res.json.topKeywordDensity

\* C29 witness: a list of 20 keywords of three or more different densities,
\* with avgDensity strictly between the least and the greatest.
C29_Witness ==
    /\ KeywordDensityAnswered
    /\ Len(res.json.keywords) = TopN
    /\ Cardinality({res.json.keywords[k].density : k \in DOMAIN res.json.keywords}) >= 3
    /\ res.json.avgDensity.hundredths < res.json.topKeywordDensity
    /\ res.json.avgDensity.hundredths > res.json.keywords[TopN].density

----------------------------------------------------------------------------
(* Further properties of the title-case conversion.                        *)

\* C24: the converted title holds the words of the text in their order,
\* with one space where the text has a run of white space: its only white
\* space is the single space, never two in a row, and for a text that begins
\* and ends with a word it is the words joined by one space each.
C24_SingleSpaces ==
    TitleCaseAnswered =>
        LET c == res.json.converted
            inWords == RawTokens(toLowerCase(req.body))
        IN  /\ RawTokens(toLowerCase(c)) = inWords
            /\ \A p \in DOMAIN c : IsSpace(c[p]) => c[p] = " "
            /\ \A p \in 1..(Len(c) - 1) : ~(IsSpace(c[p]) /\ IsSpace(c[p + 1]))
            /\ (~IsSpace(req.body[1]) /\ ~IsSpace(req.body[Len(req.body)])) =>
                  /\ toLowerCase(c) = join(inWords, <<" ">>)
                  /\ Len(c) = WordStart(inWords, Len(inWords)) + Len(inWords[Len(inWords)]) - 1

\* C24 witness: the title of a text of three words that has a space and a
\* tab in a row between two of them.
C24_Witness ==
    /\ TitleCaseAnswered
    /\ ~IsSpace(req.body[1])
    /\ ~IsSpace(req.body[Len(req.body)])
    /\ Len(words) = 3
    /\ \E p \in 1..(Len(req.body) - 1) : req.body[p] = " " /\ req.body[p + 1] = "\t"
    /\ Len(res.json.converted) < Len(req.body)

----------------------------------------------------------------------------
(* Further properties of the generator routes.                             *)

\* C23: in the loop over the lines of the text, a line that is neither
\* numbered nor a dash line, and a dash line met while no section is open,
\* leaves the sections emitted so far and the current section as they were.
C23_OtherLinesIgnored ==
    BlogOutlineSucceeded =>
        LET lines == outlineLines(GeneratorText)
        IN  \A k \in DOMAIN lines :
                LET before == parseLines(lines, k - 1)
                    after == parseLines(lines, k)
                IN  (/\ ~NumberedAt(lines[k], 1)
                     /\ ~DashAt(lines[k], 1) \/ ~before.currentSection.open) =>
                        /\ after.sections = before.sections
                        /\ after.currentSection = before.currentSection

\* C23 witness: an outline from a text that begins with a dash line and has,
\* after its first numbered line, a line that starts with a digit but is not
\* numbered; no section has a subsection.
C23_Witness ==
    /\ BlogOutlineSucceeded
    /\ DashAt(GeneratorText, 1)
    /\ HasNumberedLine(GeneratorText)
    /\ \E p \in LineStarts(GeneratorText) :
          /\ p > Nth(NumberedStarts(GeneratorText), 1)
          /\ GeneratorText[p] \in Digits
          /\ ~NumberedAt(GeneratorText, p)
    /\ \A j \in DOMAIN res.json.sections : res.json.sections[j].subsections = <<>>

MetaDescriptionSucceeded ==
    req.path = MetaDescriptionPath /\ res.sent /\ res.status = 200

\* the positions of text that hold no white space
Marks(text) == {i \in DOMAIN text : ~IsSpace(text[i])}

\* C28: the content of a meta description is the generator's text without
\* the white space around it, cut after 160 characters, and length is the
\* number of characters of that content, 160 at most.
C28_MetaContentAndLength ==
    MetaDescriptionSucceeded =>
        LET text == GeneratorText
            content == res.json.content
        IN  /\ res.json.length = Len(content)
            /\ res.json.length <= 160
            /\ IF Marks(text) = {} THEN content = <<>>
               ELSE LET first == Nth(Marks(text), 1)
                        last == Nth(Marks(text), Cardinality(Marks(text)))
                    IN  /\ Len(content) = IF last - first + 1 > 160 THEN 160
                                          ELSE last - first + 1
                        /\ content = SubSeq(text, first, first + Len(content) - 1)

\* C28 witness: a meta description cut to 160 characters from a longer text
\* that has white space around it.
C28_Witness ==
    /\ MetaDescriptionSucceeded
    /\ res.json.length = 160
    /\ Len(trim(GeneratorText)) > 160
    /\ IsSpace(GeneratorText[1])

----------------------------------------------------------------------------
(* Properties of all four routes.                                          *)

\* the request's body passes the schema of its route
BodyValid ==
    IF req.path = TitleCasePath THEN Len(req.body) >= 1
    ELSE IF req.path = KeywordDensityPath THEN Len(req.body) >= 50
    ELSE IF req.path = BlogOutlinePath
    THEN /\ Len(req.body.topic) >= 1
         /\ req.body.length \in {<<>>, <<"short">>, <<"medium">>, <<"long">>}
    ELSE Len(req.body.title) >= 1

\* C25: a request makes at most one fetch to the Hugging Face API: none
\* without an API key, none on the title-case and keyword-density routes,
\* and still only one once a call that failed or was answered with a status
\* that is no success has been answered 500.
C25_AtMostOneFetch ==
    /\ hfCall.fetches <= 1
    /\ hfCall.fetches = 1 <=> hfCall.state \in {"pending", "settled"}
    /\ apiKey = NoApiKey => hfCall.fetches = 0
    /\ req.path \in {TitleCasePath, KeywordDensityPath} => hfCall.fetches = 0
    /\ ~BodyValid => hfCall.fetches = 0

\* C25 witness: a blog-outline request answered 500 after its one fetch was
\* answered with a status that is no success.
C25_Witness ==
    /\ req.path = BlogOutlinePath
    /\ AnsweredNotOk
    /\ res.sent
    /\ res.status = 500
    /\ hfCall.fetches = 1

\* the steps by which a handler answers a body its schema rejects
AnswersRejection ==
    \/ TitleCaseRejected
    \/ KeywordDensityRejected
    \/ BlogOutlineRejected
    \/ MetaDescriptionRejected

\* C27: res.json is called at most once for a request, and once when the
\* request is answered; the answer is a success payload or status 500 with a
\* message; a body that fails its schema is answered 500, the handler's next
\* step being that answer, with nothing transformed and no fetch made.
C27_ExactlyOneResponse ==
    /\ res.nth <= 1
    /\ res.sent <=> res.nth = 1
    /\ res.sent =>
          \/ res.status = 200 /\ "message" \notin DOMAIN res.json
          \/ res.status = 500 /\ DOMAIN res.json = {"message"}
    /\ ~BodyValid =>
          /\ hfCall = NoCall
          /\ words = <<>>
          /\ wordCount = <<>>
          /\ IF res.sent
             THEN res.status = 500 /\ DOMAIN res.json = {"message"}
             ELSE ENABLED AnswersRejection

\* C27 witness: a keyword-density request with a content shorter than 50
\* characters, answered 500 by the one call of res.json.
C27_Witness ==
    /\ req.path = KeywordDensityPath
    /\ Len(req.body) > 0
    /\ ~BodyValid
    /\ res.sent
    /\ res.status = 500
    /\ res.nth = 1

-----------------------------------------------------------------------------
(* Properties of requests handled concurrently.                             *)

\* the prompt a generator request sends
PromptOf(r) ==
    IF r.path = BlogOutlinePath THEN outlinePrompt(r.body) ELSE metaPrompt(r.body)

\* the body of a generator request passes its schema
GeneratorBodyValid(r) ==
    IF r.path = BlogOutlinePath THEN OutlineBodyValid(r.body) ELSE MetaBodyValid(r.body)

Failure(message) == [status |-> 500, json |-> [message |-> message]]

Success(response) == [status |-> 200, json |-> response]

\* the answers request r gets when it is processed alone, with key as the
\* process's API key and call as the call the request made: a function of
\* the body and of the call's outcome (and a choice where the average
\* density is not determined)
AloneAnswers(r, key, call) ==
    IF r.path = TitleCasePath THEN
        IF Len(r.body) < MinTextLen THEN {Failure(ZodError)}
        ELSE {Success([original |-> r.body,
                       converted |-> join(convertedWords(split(toLowerCase(r.body))), <<" ">>),
                       rulesApplied |-> rulesApplied])}
    ELSE IF r.path = KeywordDensityPath THEN
        IF Len(r.body) < MinContentLen THEN {Failure(ZodError)}
        ELSE LET tokens == tokenize(r.body)
                 counts == countWords(tokens, 1, Len(tokens), <<>>)
                 keywords == keywordsOf(counts, Len(tokens))
             IN  {Success([totalWords |-> Len(tokens),
                           uniqueKeywords |-> uniqueKeywordsOf(counts),
                           keywords |-> keywords,
                           avgDensity |-> avgDensity,
                           topKeywordDensity |-> topKeywordDensityOf(keywords)]) :
                     avgDensity \in avgDensityValues(keywords)}
    ELSE IF ~GeneratorBodyValid(r) THEN {Failure(ZodError)}
    ELSE IF key = NoApiKey THEN {Failure(KeyNotConfigured)}
    ELSE IF call.state # "settled" THEN {}
    ELSE IF call.prompt # PromptOf(r) THEN {}
    ELSE LET returned == callHuggingFaceSettled(call.outcome)
         IN  IF returned.threw THEN {Failure(returned.message)}
             ELSE IF r.path = BlogOutlinePath THEN
                 {Success([title |-> r.body.topic,
                           sections |-> sectionsOf(returned.value, r.body.topic),
                           estimatedWordCount |-> estimatedWordCount(lengthOf(r.body)),
                           estimatedReadingTime |->
                               estimatedReadingTime(estimatedWordCount(lengthOf(r.body)))])}
             ELSE {Success([content |-> metaContent(trim(returned.value)),
                            length |-> metaLength(trim(returned.value))])}

\* the response of a handler, if sent, is one the request gets alone
AnsweredAsAlone(r, rs, call) ==
    rs.sent => [status |-> rs.status, json |-> rs.json] \in AloneAnswers(r, apiKey, call)

\* C26: under any interleaving of two handlers, including suspension at the
\* external call, the response to each request is the one it gets when it is
\* processed alone: a function of its own body and of the reply to its own
\* call of the generator.
C26_ResponsesAsAlone ==
    /\ AnsweredAsAlone(req, res, hfCall)
    /\ suspended.handling =>
          AnsweredAsAlone(suspended.req, suspended.res, suspended.hfCall)

\* one handler has answered from the reply to its call while the other one is
\* suspended at its own call
C26_Witness ==
    /\ suspended.handling
    /\ req.path \in {BlogOutlinePath, MetaDescriptionPath}
    /\ res.sent
    /\ res.status = 200
    /\ hfCall.state = "settled"
    /\ suspended.req.path \in {BlogOutlinePath, MetaDescriptionPath}
    /\ suspended.req # req
    /\ suspended.hfCall.state = "pending"
    /\ ~suspended.res.sent

-----------------------------------------------------------------------------
(* Properties of the tool page.                                             *)

\* C30: once the user pressed Clear, the displayed result stays empty until
\* the next submit, whatever the order of the Clear click and the completion
\* of a request already in flight.
C30_ResultEmptyAfterClear ==
    (page.open /\ page.cleared) => ~page.result.shown

====
